---- MODULE Spec2Model ----
(***************************************************************************)
(* Model of src/src/lib.rs (ultimate_data_arc_parser): parse(),            *)
(* internal_parse() and the entry decoders read_pair / read_triplet.       *)
(*                                                                         *)
(* Rust's u32 / u64 / usize values do not fit TLC's integers, so every     *)
(* such value is a "wide" number: four little-endian limbs of 16 bits,     *)
(* i.e. a full 64-bit unsigned integer.  A u32 is a wide number whose two  *)
(* upper limbs are 0.  usize is taken to be 64 bits wide.                  *)
(***************************************************************************)
EXTENDS Integers, Sequences, FiniteSets, TLC

VARIABLES
    file,         \* the bytes of the file behind the File handle
    build,        \* "debug" (overflow checks on) or "release" (wrapping)
    pc,           \* position of the call inside parse / internal_parse
    pos,          \* the File's cursor (a wide number)
    io,           \* every read / seek issued on the File, in order
    result,       \* "running", "NotDataArc", "InternalError", "Ok", "panic"
    error,        \* what the Err or the panic was
    header,       \* ArcHeader                 (lib.rs:204)
    compressed,   \* CompressedNodeHeader      (lib.rs:211)
    node_header,  \* NodeHeader                (lib.rs:220)
    buffer,       \* the node-section buffer   (lib.rs:223-224)
    sections,     \* start offset in buffer of each slice of lib.rs:230-246
    hash_bucket,  \* HashBucket read at lib.rs:244
    printed,      \* number of "section: entry" lines printed (lib.rs:251-271)
    writes,       \* how often another process has rewritten the file
    data,         \* decoder harness: the byte window handed to a decoder
    pair,         \* decoder harness: outcome of read_pair(data)
    triplet       \* decoder harness: outcome of read_triplet(data)

parseVars == <<file, build, pc, pos, io, result, error, header, compressed,
               node_header, buffer, sections, hash_bucket, printed, writes>>
decodeVars == <<data, pair, triplet>>
vars == <<file, build, pc, pos, io, result, error, header, compressed,
          node_header, buffer, sections, hash_bucket, printed, writes,
          data, pair, triplet>>

----------------------------------------------------------------------------
(* Wide (64-bit) unsigned arithmetic.                                      *)

B16 == 256 * 256

Zero == <<0, 0, 0, 0>>

\* Propagate carries limb by limb; the carry out of the top limb is dropped
\* (arithmetic modulo 2^64).
Carry(a) ==
    LET s1 == a[1]
        s2 == a[2] + (s1 \div B16)
        s3 == a[3] + (s2 \div B16)
        s4 == a[4] + (s3 \div B16)
    IN  <<s1 % B16, s2 % B16, s3 % B16, s4 % B16>>

\* a + b on u64 / usize.
Add(a, b) == Carry(<<a[1] + b[1], a[2] + b[2], a[3] + b[3], a[4] + b[4]>>)

\* k * a on usize, k one of the small entry sizes.
Mul(k, a) == Carry(<<k * a[1], k * a[2], k * a[3], k * a[4]>>)

\* a - b on usize, wrapping (a + ~b + 1).
WrappingSub(a, b) ==
    Carry(<<a[1] + (B16 - 1 - b[1]) + 1, a[2] + (B16 - 1 - b[2]),
            a[3] + (B16 - 1 - b[3]), a[4] + (B16 - 1 - b[4])>>)

Lt(a, b) == \E i \in 1..4 : a[i] < b[i] /\ \A j \in (i + 1)..4 : a[j] = b[j]

Le(a, b) == a = b \/ Lt(a, b)

\* A small natural number as usize / u32 / u64, and back.
FromNat(n) == <<n % B16, n \div B16, 0, 0>>

ToNat(a) == a[1] + B16 * a[2]

\* u32::MAX, and whether a wide number fits a u32.
U32Max == <<B16 - 1, B16 - 1, 0, 0>>

FitsU32(a) == a[3] = 0 /\ a[4] = 0

\* The low 32 bits of a wide number: what a wrapping u32 operation keeps.
WrapU32(a) == <<a[1], a[2], 0, 0>>

----------------------------------------------------------------------------
(* Little-endian primitive decoders (byteorder::LittleEndian, scroll LE).  *)

read_u16(d) == FromNat(d[1] + 256 * d[2])

read_u32(d) == <<d[1] + 256 * d[2], d[3] + 256 * d[4], 0, 0>>

read_u64(d) == <<d[1] + 256 * d[2], d[3] + 256 * d[4],
                 d[5] + 256 * d[6], d[7] + 256 * d[8]>>

\* data[from..] : the rest of a slice from a 0-based offset.
SliceFrom(d, from) == SubSeq(d, from + 1, Len(d))

----------------------------------------------------------------------------
(* Record sizes.                                                           *)

ARC_HEADER_SIZE == 40
COMPRESSED_NODE_HEADER_SIZE == 16
NODE_HEADER_SIZE == 68
ENTRY_TRIPLET_SIZE == 12
ENTRY_PAIR_SIZE == 8
BIG_HASH_ENTRY_SIZE == 52
TREE_ENTRY_SIZE == 40
FILE_PAIR_SIZE == 16
BIG_FILE_ENTRY_SIZE == 28
FILE_ENTRY_SIZE == 16
HASH_BUCKET_SIZE == 8
U32_SIZE == 4
MAGIC_SIZE == 8

\* 0xabcdef9876543210
MAGIC == <<12816, 30292, 61336, 43981>>

\* The probe's data_start below this marks a compressed node section.
RAW_THRESHOLD == 256

----------------------------------------------------------------------------
(* Entry decoders.                                                         *)

\* read_pair panics (index out of bounds) on a slice shorter than 8 bytes.
read_pair_hash_wrongbyte(d) ==
    read_u64(<<d[1], d[2], d[3], d[4], d[6], 0, 0, 0>>)

read_pair_hash(d) == read_u64(<<d[1], d[2], d[3], d[4], d[5], 0, 0, 0>>)

read_pair_meta(d) == read_u32(<<d[6], d[7], d[8], 0>>)

read_pair(d) == [hash |-> read_pair_hash(d), meta |-> read_pair_meta(d)]

\* read_triplet panics on a slice shorter than 12 bytes: data[0..7] index,
\* &data[8..] slices, and read_u32 asserts 4 bytes.
read_triplet(d) ==
    [hash  |-> read_u64(<<d[1], d[2], d[3], d[4], d[5], 0, 0, 0>>),
     meta  |-> read_u32(<<d[6], d[7], d[8], 0>>),
     meta2 |-> read_u32(SliceFrom(d, 8))]

----------------------------------------------------------------------------
(* Header layouts (scroll Pread derive: fields in order, no padding).      *)

ArcHeaderOf(b) ==
    [music_file_section_offset |-> read_u64(SliceFrom(b, 0)),
     file_section_offset       |-> read_u64(SliceFrom(b, 8)),
     music_section_offset      |-> read_u64(SliceFrom(b, 16)),
     node_section_offset       |-> read_u64(SliceFrom(b, 24)),
     unk_section_offset        |-> read_u64(SliceFrom(b, 32))]

CompressedNodeHeaderOf(b) ==
    [data_start     |-> read_u32(SliceFrom(b, 0)),
     decomp_size    |-> read_u32(SliceFrom(b, 4)),
     comp_size      |-> read_u32(SliceFrom(b, 8)),
     zstd_comp_size |-> read_u32(SliceFrom(b, 12))]

NodeHeaderOf(b) ==
    [file_size               |-> read_u32(SliceFrom(b, 0)),
     folder_count            |-> read_u32(SliceFrom(b, 4)),
     file_count1             |-> read_u32(SliceFrom(b, 8)),
     tree_count              |-> read_u32(SliceFrom(b, 12)),
     sub_files1_count        |-> read_u32(SliceFrom(b, 16)),
     file_lookup_count       |-> read_u32(SliceFrom(b, 20)),
     hash_folder_count       |-> read_u32(SliceFrom(b, 24)),
     file_information_count  |-> read_u32(SliceFrom(b, 28)),
     file_count2             |-> read_u32(SliceFrom(b, 32)),
     sub_files2_count        |-> read_u32(SliceFrom(b, 36)),
     unk1                    |-> read_u32(SliceFrom(b, 40)),
     unk2                    |-> read_u32(SliceFrom(b, 44)),
     another_hash_table_size |-> FromNat(b[49]),
     unk3                    |-> FromNat(b[50]),
     unk4                    |-> read_u16(SliceFrom(b, 50)),
     movie_count             |-> read_u32(SliceFrom(b, 52)),
     part1_count             |-> read_u32(SliceFrom(b, 56)),
     part2_count             |-> read_u32(SliceFrom(b, 60)),
     music_file_count        |-> read_u32(SliceFrom(b, 64))]

HashBucketOf(b) ==
    [index       |-> read_u32(SliceFrom(b, 0)),
     num_entries |-> read_u32(SliceFrom(b, 4))]

----------------------------------------------------------------------------
(* The File: read_exact, seek.                                             *)

\* read_exact(n) succeeds iff n bytes lie between the cursor and the end.
CanRead(n) == Le(Add(pos, n), FromNat(Len(file)))

\* The n bytes at the cursor (n and pos small once CanRead holds).
BytesAtCursor(n) == SubSeq(file, ToNat(pos) + 1, ToNat(pos) + ToNat(n))

\* seek(SeekFrom::Start(o)) fails for an offset that is negative as an i64.
SeekFails(o) == o[4] >= B16 \div 2

Finish(res, err) ==
    /\ pc' = "done"
    /\ result' = res
    /\ error' = err

----------------------------------------------------------------------------
(* parse (lib.rs:22-32).                                                   *)

MagicMatchesLow32(b) == WrapU32(read_u64(b)) = WrapU32(MAGIC)

\* magic != 0xabcdef9876543210 is false
MagicMatches(b) == read_u64(b) = MAGIC

\* file.read_u64::<LittleEndian>() and the comparison with the magic number.
ReadMagic ==
    /\ pc = "magic"
    /\ io' = Append(io, <<"read", pos, FromNat(MAGIC_SIZE)>>)
    /\ IF CanRead(FromNat(MAGIC_SIZE))
       THEN /\ pos' = Add(pos, FromNat(MAGIC_SIZE))
            /\ IF MagicMatches(BytesAtCursor(FromNat(MAGIC_SIZE)))
               THEN pc' = "arc_header" /\ UNCHANGED <<result, error>>
               ELSE Finish("NotDataArc", "magic")
       ELSE /\ pos' = FromNat(Len(file))
            /\ Finish("NotDataArc", "io")
    /\ UNCHANGED <<file, build, header, compressed, node_header, buffer,
                   sections, hash_bucket, printed, writes>>
    /\ UNCHANGED decodeVars

----------------------------------------------------------------------------
(* internal_parse (lib.rs:201-274); every Err it returns becomes           *)
(* ParseError::InternalError at lib.rs:31, a panic unwinds through parse.  *)

\* lib.rs:202-205
ReadArcHeader ==
    /\ pc = "arc_header"
    /\ io' = Append(io, <<"read", pos, FromNat(ARC_HEADER_SIZE)>>)
    /\ IF CanRead(FromNat(ARC_HEADER_SIZE))
       THEN /\ pos' = Add(pos, FromNat(ARC_HEADER_SIZE))
            /\ header' = ArcHeaderOf(BytesAtCursor(FromNat(ARC_HEADER_SIZE)))
            /\ pc' = "seek_probe"
            /\ UNCHANGED <<result, error>>
       ELSE /\ pos' = FromNat(Len(file))
            /\ Finish("InternalError", "io")
            /\ UNCHANGED header
    /\ UNCHANGED <<file, build, compressed, node_header, buffer, sections,
                   hash_bucket, printed, writes>>
    /\ UNCHANGED decodeVars

\* file.seek(SeekFrom::Start(header.node_section_offset))
SeekTo(here, next) ==
    /\ pc = here
    /\ io' = Append(io, <<"seek", header.node_section_offset, Zero>>)
    /\ IF SeekFails(header.node_section_offset)
       THEN Finish("InternalError", "io") /\ UNCHANGED pos
       ELSE /\ pos' = header.node_section_offset
            /\ pc' = next
            /\ UNCHANGED <<result, error>>
    /\ UNCHANGED <<file, build, header, compressed, node_header, buffer,
                   sections, hash_bucket, printed, writes>>
    /\ UNCHANGED decodeVars

\* lib.rs:207
SeekProbe == SeekTo("seek_probe", "probe")

\* lib.rs:209-211
ReadProbe ==
    /\ pc = "probe"
    /\ io' = Append(io, <<"read", pos, FromNat(COMPRESSED_NODE_HEADER_SIZE)>>)
    /\ IF CanRead(FromNat(COMPRESSED_NODE_HEADER_SIZE))
       THEN /\ pos' = Add(pos, FromNat(COMPRESSED_NODE_HEADER_SIZE))
            /\ compressed' = CompressedNodeHeaderOf(
                                BytesAtCursor(FromNat(COMPRESSED_NODE_HEADER_SIZE)))
            /\ pc' = "branch"
            /\ UNCHANGED <<result, error>>
       ELSE /\ pos' = FromNat(Len(file))
            /\ Finish("InternalError", "io")
            /\ UNCHANGED compressed
    /\ UNCHANGED <<file, build, header, node_header, buffer, sections,
                   hash_bucket, printed, writes>>
    /\ UNCHANGED decodeVars

NodeIsCompressedBelowHeaderSize(c) == Lt(c.data_start, FromNat(NODE_HEADER_SIZE))

\* compressed.data_start < 0x100
NodeIsCompressed(c) == Lt(c.data_start, FromNat(RAW_THRESHOLD))

\* lib.rs:213-216: the compressed branch is unimplemented!(), a panic.
Branch ==
    /\ pc = "branch"
    /\ IF NodeIsCompressed(compressed)
       THEN Finish("panic", "unimplemented")
       ELSE pc' = "seek_node" /\ UNCHANGED <<result, error>>
    /\ UNCHANGED <<file, build, pos, io, header, compressed, node_header,
                   buffer, sections, hash_bucket, printed, writes>>
    /\ UNCHANGED decodeVars

\* lib.rs:217
SeekNode == SeekTo("seek_node", "node_header")

\* lib.rs:218-221
ReadNodeHeader ==
    /\ pc = "node_header"
    /\ io' = Append(io, <<"read", pos, FromNat(NODE_HEADER_SIZE)>>)
    /\ IF CanRead(FromNat(NODE_HEADER_SIZE))
       THEN /\ pos' = Add(pos, FromNat(NODE_HEADER_SIZE))
            /\ node_header' = NodeHeaderOf(BytesAtCursor(FromNat(NODE_HEADER_SIZE)))
            /\ pc' = "buffer"
            /\ UNCHANGED <<result, error>>
       ELSE /\ pos' = FromNat(Len(file))
            /\ Finish("InternalError", "io")
            /\ UNCHANGED node_header
    /\ UNCHANGED <<file, build, header, compressed, buffer, sections,
                   hash_bucket, printed, writes>>
    /\ UNCHANGED decodeVars

\* node_header.file_size as usize - NODE_HEADER_SIZE: the subtraction
\* overflows when file_size < 68.
BufferSizeUnderflows(h) == Lt(h.file_size, FromNat(NODE_HEADER_SIZE))

BufferSize(h) == WrappingSub(h.file_size, FromNat(NODE_HEADER_SIZE))

\* vec!(0; n) panics with "capacity overflow" for n > isize::MAX.
AllocFails(n) == n[4] >= B16 \div 2

\* lib.rs:223-224.  A debug build panics on the underflow; a release build
\* wraps to a size above isize::MAX, on which vec! panics.
ReadBuffer ==
    /\ pc = "buffer"
    /\ IF BufferSizeUnderflows(node_header) /\ build = "debug"
       THEN Finish("panic", "subtract_overflow") /\ UNCHANGED <<pos, io, buffer>>
       ELSE IF AllocFails(BufferSize(node_header))
       THEN Finish("panic", "capacity_overflow") /\ UNCHANGED <<pos, io, buffer>>
       ELSE /\ io' = Append(io, <<"read", pos, BufferSize(node_header)>>)
            /\ IF CanRead(BufferSize(node_header))
               THEN /\ pos' = Add(pos, BufferSize(node_header))
                    /\ buffer' = BytesAtCursor(BufferSize(node_header))
                    /\ pc' = "resolve"
                    /\ UNCHANGED <<result, error>>
               ELSE /\ pos' = FromNat(Len(file))
                    /\ Finish("InternalError", "io")
                    /\ UNCHANGED buffer
    /\ UNCHANGED <<file, build, header, compressed, node_header, sections,
                   hash_bucket, printed, writes>>
    /\ UNCHANGED decodeVars

----------------------------------------------------------------------------
(* The section slices (lib.rs:230-246).  Slice i+1 is &slice_i[n..]: it    *)
(* panics when n exceeds what is left of the buffer after slice i's start. *)

SectionNames ==
    <<"bulkfile_category_info", "bulkfile_hash_lookup", "bulkfiles_by_name",
      "bulkfile_lookup_to_fileidx", "file_pairs", "another_hash_table",
      "big_hashes", "big_files", "folder_hash_lookup", "trees", "sub_files1",
      "sub_files2", "folder_to_big_hash", "file_lookup_buckets", "file_lookup",
      "numbers">>

NumSections == Len(SectionNames)

\* node_header.file_count1 + node_header.file_count2 is a u32 addition: a
\* debug build panics when it overflows, a release build keeps the low 32 bits.
FileCountOverflows(h) == ~FitsU32(Add(h.file_count1, h.file_count2))

FileCount(h) == WrapU32(Add(h.file_count1, h.file_count2))

\* The index expression of the slice taken after slice i (lib.rs:230+i).
Advance(h, hb, i) ==
    CASE i = 1  -> Mul(ENTRY_TRIPLET_SIZE, h.movie_count)
      [] i = 2  -> Mul(ENTRY_PAIR_SIZE, h.part1_count)
      [] i = 3  -> Mul(ENTRY_TRIPLET_SIZE, h.part1_count)
      [] i = 4  -> Mul(U32_SIZE, h.part2_count)
      [] i = 5  -> Mul(FILE_PAIR_SIZE, h.music_file_count)
      [] i = 6  -> Mul(ENTRY_TRIPLET_SIZE, h.another_hash_table_size)
      [] i = 7  -> Mul(BIG_HASH_ENTRY_SIZE, h.folder_count)
      [] i = 8  -> Mul(BIG_FILE_ENTRY_SIZE, FileCount(h))
      [] i = 9  -> Mul(ENTRY_PAIR_SIZE, h.hash_folder_count)
      [] i = 10 -> Mul(TREE_ENTRY_SIZE, h.tree_count)
      [] i = 11 -> Mul(FILE_ENTRY_SIZE, h.sub_files1_count)
      [] i = 12 -> Mul(FILE_ENTRY_SIZE, h.sub_files2_count)
      [] i = 13 -> Mul(ENTRY_PAIR_SIZE, h.folder_count)
      [] i = 14 -> Mul(HASH_BUCKET_SIZE, Add(hb.num_entries, FromNat(1)))
      [] i = 15 -> Mul(ENTRY_PAIR_SIZE, h.file_lookup_count)

NoHashBucket == [index |-> Zero, num_entries |-> Zero]

\* Takes the slices one after the other.  starts holds the start offsets of
\* the slices taken so far; hb is the HashBucket once lib.rs:244 has read it.
RECURSIVE Slices(_, _, _, _, _)
Slices(h, buf, bld, starts, hb) ==
    LET i    == Len(starts)
        left == Len(buf) - starts[i]
        hb2  == IF i = 14 /\ left >= HASH_BUCKET_SIZE
                THEN HashBucketOf(SliceFrom(buf, starts[i]))
                ELSE hb
    IN  IF i = NumSections
        THEN [starts |-> starts, hb |-> hb, res |-> "running", err |-> "none"]
        ELSE IF i = 8 /\ FileCountOverflows(h) /\ bld = "debug"
        THEN [starts |-> starts, hb |-> hb, res |-> "panic", err |-> "add_overflow"]
        ELSE IF i = 14 /\ left < HASH_BUCKET_SIZE
        THEN [starts |-> starts, hb |-> hb, res |-> "InternalError", err |-> "scroll"]
        ELSE IF Lt(FromNat(left), Advance(h, hb2, i))
        THEN [starts |-> starts, hb |-> hb2, res |-> "panic", err |-> "slice_index"]
        ELSE Slices(h, buf, bld,
                    Append(starts, starts[i] + ToNat(Advance(h, hb2, i))), hb2)

\* lib.rs:230-246
Resolve ==
    /\ pc = "resolve"
    /\ LET r == Slices(node_header, buffer, build, <<0>>, NoHashBucket)
       IN  /\ sections' = r.starts
           /\ hash_bucket' = r.hb
           /\ IF r.res = "running"
              THEN pc' = "print" /\ UNCHANGED <<result, error>>
              ELSE Finish(r.res, r.err)
    /\ UNCHANGED <<file, build, pos, io, header, compressed, node_header,
                   buffer, printed, writes>>
    /\ UNCHANGED decodeVars

----------------------------------------------------------------------------
(* The debug prints (lib.rs:251-271): the first entry of every slice is    *)
(* decoded from the bytes between the slice's start and the buffer's end.  *)

\* Bytes the decoder of slice i's first entry needs.
PrintNeeds ==
    <<ENTRY_TRIPLET_SIZE, ENTRY_PAIR_SIZE, ENTRY_TRIPLET_SIZE, U32_SIZE,
      FILE_PAIR_SIZE, ENTRY_TRIPLET_SIZE, BIG_HASH_ENTRY_SIZE,
      BIG_FILE_ENTRY_SIZE, ENTRY_PAIR_SIZE, TREE_ENTRY_SIZE, FILE_ENTRY_SIZE,
      FILE_ENTRY_SIZE, ENTRY_PAIR_SIZE, HASH_BUCKET_SIZE, ENTRY_PAIR_SIZE,
      ENTRY_PAIR_SIZE>>

\* The slices decoded with pread_with(0, LE)?, which returns Err on a short
\* slice; the others are decoded by indexing, which panics.
PreadSlices == {5, 8, 11, 12, 14}

ShortSlices(buf, starts) ==
    {i \in 1..NumSections : Len(buf) - starts[i] < PrintNeeds[i]}

FirstShort(buf, starts) ==
    CHOOSE i \in ShortSlices(buf, starts) :
        \A j \in ShortSlices(buf, starts) : i <= j

\* lib.rs:248-273
DebugPrints ==
    /\ pc = "print"
    /\ IF ShortSlices(buffer, sections) = {}
       THEN /\ printed' = NumSections
            /\ Finish("Ok", "none")
       ELSE /\ printed' = FirstShort(buffer, sections) - 1
            /\ IF FirstShort(buffer, sections) \in PreadSlices
               THEN Finish("InternalError", "scroll")
               ELSE Finish("panic", "index_out_of_bounds")
    /\ UNCHANGED <<file, build, pos, io, header, compressed, node_header,
                   buffer, sections, hash_bucket, writes>>
    /\ UNCHANGED decodeVars

----------------------------------------------------------------------------
(* Bounds of the model.                                                    *)

\* Payload words take the values 0..MaxFill.
MaxFill == 1

\* Rewrites of the file by another process during one parse call.
MaxWrites == 1

\* Bytes a decoder window may extend beyond the 12 bytes of a triplet.
MaxExtra == 1

----------------------------------------------------------------------------
(* The files parse is run on.                                              *)

enc_u32(w) == <<w[1] % 256, w[1] \div 256, w[2] % 256, w[2] \div 256>>

enc_u64(w) == enc_u32(<<w[1], w[2]>>) \o enc_u32(<<w[3], w[4]>>)

\* n bytes of little-endian u32 words of value v.
Words(n, v) == [i \in 1..n |-> IF i % 4 = 1 THEN v ELSE 0]

Take(f, n) == SubSeq(f, 1, IF n < Len(f) THEN n ELSE Len(f))

\* A NodeHeader declaring file_size fs and no entries at all.
ZeroCounts(fs) ==
    [file_size |-> FromNat(fs), folder_count |-> Zero, file_count1 |-> Zero,
     tree_count |-> Zero, sub_files1_count |-> Zero, file_lookup_count |-> Zero,
     hash_folder_count |-> Zero, file_information_count |-> Zero,
     file_count2 |-> Zero, sub_files2_count |-> Zero, unk1 |-> Zero,
     unk2 |-> Zero, another_hash_table_size |-> Zero, unk3 |-> Zero,
     unk4 |-> Zero, movie_count |-> Zero, part1_count |-> Zero,
     part2_count |-> Zero, music_file_count |-> Zero]

NodeHeaderBytes(h) ==
    enc_u32(h.file_size) \o enc_u32(h.folder_count) \o enc_u32(h.file_count1)
    \o enc_u32(h.tree_count) \o enc_u32(h.sub_files1_count)
    \o enc_u32(h.file_lookup_count) \o enc_u32(h.hash_folder_count)
    \o enc_u32(h.file_information_count) \o enc_u32(h.file_count2)
    \o enc_u32(h.sub_files2_count) \o enc_u32(h.unk1) \o enc_u32(h.unk2)
    \o <<h.another_hash_table_size[1] % 256, h.unk3[1] % 256,
         h.unk4[1] % 256, h.unk4[1] \div 256>>
    \o enc_u32(h.movie_count) \o enc_u32(h.part1_count)
    \o enc_u32(h.part2_count) \o enc_u32(h.music_file_count)

\* magic, ArcHeader, padding up to the node section at offset nso, the raw
\* NodeHeader h and file_size - 68 bytes of payload.
FileOf(magic, nso, h, fill) ==
    enc_u64(magic)
    \o enc_u64(Zero) \o enc_u64(Zero) \o enc_u64(Zero)
    \o enc_u64(FromNat(nso)) \o enc_u64(Zero)
    \o Words(nso - (MAGIC_SIZE + ARC_HEADER_SIZE), 0)
    \o NodeHeaderBytes(h)
    \o Words(ToNat(h.file_size) - NODE_HEADER_SIZE, fill)

CountFields ==
    {"movie_count", "part1_count", "part2_count", "music_file_count",
     "another_hash_table_size", "folder_count", "file_count1", "file_count2",
     "hash_folder_count", "tree_count", "sub_files1_count", "sub_files2_count",
     "file_lookup_count"}

CountValues == {1, 3, 15}

Headers(fs) ==
    {ZeroCounts(fs)}
    \cup {[ZeroCounts(fs) EXCEPT ![f] = FromNat(k)] :
             f \in CountFields, k \in CountValues}
    \cup {[ZeroCounts(fs) EXCEPT !.file_count1 = U32Max,
                                 !.file_count2 = FromNat(k)] : k \in {1, 2}}

NodeOffsets == {48, 52}

RawFileSizes == {256, 316}

TruncLens == {0, 5, 8, 30, 48, 60, 100, 200, 400}

BadMagics ==
    {Zero, [MAGIC EXCEPT ![1] = 12817], [MAGIC EXCEPT ![4] = 43980]}

LayoutFiles ==
    UNION {{FileOf(MAGIC, 48, h, v) : h \in Headers(fs), v \in 0..MaxFill} :
              fs \in RawFileSizes}

TruncFiles ==
    {Take(FileOf(MAGIC, nso, ZeroCounts(fs), 0), n) :
        nso \in NodeOffsets, fs \in {80} \cup RawFileSizes, n \in TruncLens}

BadMagicFiles == {FileOf(m, 48, ZeroCounts(256), 0) : m \in BadMagics}

Files == LayoutFiles \cup TruncFiles \cup BadMagicFiles

\* Values another process writes over a u32 of the node header.
ModValues == {16}

----------------------------------------------------------------------------
(* Another process rewrites four bytes of the file while parse runs.       *)

Overwrite(f, off, bytes) ==
    [i \in 1..Len(f) |->
        IF off < i /\ i <= off + Len(bytes) THEN bytes[i - off] ELSE f[i]]

FileModified ==
    /\ pc \notin {"done", "idle"}
    /\ writes < MaxWrites
    /\ \E off \in NodeOffsets, v \in ModValues :
          /\ off + U32_SIZE <= Len(file)
          /\ file' = Overwrite(file, off, enc_u32(FromNat(v)))
    /\ writes' = writes + 1
    /\ UNCHANGED <<build, pc, pos, io, result, error, header, compressed,
                   node_header, buffer, sections, hash_bucket, printed>>
    /\ UNCHANGED decodeVars

----------------------------------------------------------------------------
(* Decoder harness: read_pair and read_triplet applied to byte windows.    *)

NoPair == [status |-> "none", hash |-> Zero, meta |-> Zero]

NoTriplet == [status |-> "none", hash |-> Zero, meta |-> Zero, meta2 |-> Zero]

\* The bytes of the documented example, continued by a fixed pattern.
ExampleByte(i) ==
    IF i <= 8 THEN <<1, 2, 3, 4, 5, 170, 187, 204>>[i] ELSE (17 * i) % 256

WindowLens == {7, ENTRY_PAIR_SIZE, ENTRY_TRIPLET_SIZE}
              \cup (ENTRY_TRIPLET_SIZE + 1)..(ENTRY_TRIPLET_SIZE + MaxExtra)

\* Every window whose bytes are the example's or 0xff, position by position.
Windows ==
    UNION {{[i \in 1..n |-> IF m[i] = 1 THEN 255 ELSE ExampleByte(i)] :
               m \in [1..n -> {0, 1}]} : n \in WindowLens}

DecodePair ==
    /\ pc = "idle"
    /\ pair.status = "none"
    /\ pair' = IF Len(data) < ENTRY_PAIR_SIZE
               THEN [NoPair EXCEPT !.status = "panic"]
               ELSE [status |-> "ok", hash |-> read_pair(data).hash,
                     meta |-> read_pair(data).meta]
    /\ UNCHANGED <<data, triplet>>
    /\ UNCHANGED parseVars

DecodeTriplet ==
    /\ pc = "idle"
    /\ triplet.status = "none"
    /\ triplet' = IF Len(data) < ENTRY_TRIPLET_SIZE
                  THEN [NoTriplet EXCEPT !.status = "panic"]
                  ELSE [status |-> "ok", hash |-> read_triplet(data).hash,
                        meta |-> read_triplet(data).meta,
                        meta2 |-> read_triplet(data).meta2]
    /\ UNCHANGED <<data, pair>>
    /\ UNCHANGED parseVars

----------------------------------------------------------------------------
(* Specifications.                                                         *)

NoArcHeader ==
    [music_file_section_offset |-> Zero, file_section_offset |-> Zero,
     music_section_offset |-> Zero, node_section_offset |-> Zero,
     unk_section_offset |-> Zero]

NoCompressed ==
    [data_start |-> Zero, decomp_size |-> Zero, comp_size |-> Zero,
     zstd_comp_size |-> Zero]

Fresh ==
    /\ pos = Zero
    /\ io = <<>>
    /\ result = "running"
    /\ error = "none"
    /\ header = NoArcHeader
    /\ compressed = NoCompressed
    /\ node_header = ZeroCounts(0)
    /\ buffer = <<>>
    /\ sections = <<>>
    /\ hash_bucket = NoHashBucket
    /\ printed = 0
    /\ writes = 0

\* parse is called on a File positioned at offset 0.
Init ==
    /\ file \in Files
    /\ build \in {"debug", "release"}
    /\ pc = "magic"
    /\ Fresh
    /\ data = <<>>
    /\ pair = NoPair
    /\ triplet = NoTriplet

Next ==
    \/ ReadMagic
    \/ ReadArcHeader
    \/ SeekProbe
    \/ ReadProbe
    \/ Branch
    \/ SeekNode
    \/ ReadNodeHeader
    \/ ReadBuffer
    \/ Resolve
    \/ DebugPrints
    \/ FileModified

Spec == Init /\ [][Next]_vars

\* The decoders on their own.
DecodeInit ==
    /\ file = <<>>
    /\ build = "release"
    /\ pc = "idle"
    /\ Fresh
    /\ data \in Windows
    /\ pair = NoPair
    /\ triplet = NoTriplet

DecodeNext == DecodePair \/ DecodeTriplet

DecodeSpec == DecodeInit /\ [][DecodeNext]_vars

----------------------------------------------------------------------------
(* What the specification's section table declares, computed on unbounded  *)
(* (never wrapping below 2^64) numbers, for comparison with the code.      *)

DeclaredLen(h, hb, i) ==
    CASE i = 1  -> Mul(12, h.movie_count)
      [] i = 2  -> Mul(8, h.part1_count)
      [] i = 3  -> Mul(12, h.part1_count)
      [] i = 4  -> Mul(4, h.part2_count)
      [] i = 5  -> Mul(16, h.music_file_count)
      [] i = 6  -> Mul(12, h.another_hash_table_size)
      [] i = 7  -> Mul(52, h.folder_count)
      [] i = 8  -> Mul(28, Add(h.file_count1, h.file_count2))
      [] i = 9  -> Mul(8, h.hash_folder_count)
      [] i = 10 -> Mul(40, h.tree_count)
      [] i = 11 -> Mul(16, h.sub_files1_count)
      [] i = 12 -> Mul(16, h.sub_files2_count)
      [] i = 13 -> Mul(8, h.folder_count)
      [] i = 14 -> Mul(8, Add(hb.num_entries, FromNat(1)))
      [] i = 15 -> Mul(8, h.file_lookup_count)

\* Sum of the declared lengths of the sections before section i.
RECURSIVE DeclaredStart(_, _, _)
DeclaredStart(h, hb, i) ==
    IF i = 1 THEN Zero
    ELSE Add(DeclaredStart(h, hb, i - 1), DeclaredLen(h, hb, i - 1))

\* The HashBucket record lies inside buf where the table puts it.
BucketDeclaredInside(h, buf) ==
    Le(Add(DeclaredStart(h, NoHashBucket, 14), FromNat(8)), FromNat(Len(buf)))

DeclaredBucket(h, buf) ==
    IF BucketDeclaredInside(h, buf)
    THEN HashBucketOf(SliceFrom(buf, ToNat(DeclaredStart(h, NoHashBucket, 14))))
    ELSE NoHashBucket

\* The declared lengths of all fifteen sized sections sum to len(buf).
DeclaredExact(h, buf) ==
    /\ BucketDeclaredInside(h, buf)
    /\ DeclaredStart(h, DeclaredBucket(h, buf), 16) = FromNat(Len(buf))

\* The declared lengths sum to more than len(buf).
DeclaredTooLong(h, buf) ==
    \/ ~BucketDeclaredInside(h, buf)
    \/ Lt(FromNat(Len(buf)), DeclaredStart(h, DeclaredBucket(h, buf), 16))

\* Positions of the call, read off the state.
MagicIsBad == Len(file) < 8 \/ read_u64(Take(file, 8)) # MAGIC

ProbeWasRead == Len(io) >= 4 /\ ~(Len(io) = 4 /\ error = "io")

NodeHeaderWasRead == Len(io) >= 6 /\ ~(Len(io) = 6 /\ error = "io")

BufferWasRead == pc \in {"resolve", "print"} \/ (pc = "done" /\ sections # <<>>)

ResolutionSucceeded == Len(sections) = NumSections

ReadsAt(o) == {k \in 1..Len(io) : io[k][1] = "read" /\ io[k][2] = o}

----------------------------------------------------------------------------
(* Claims.                                                                 *)

\* C1: whenever resolution succeeds, every section starts at the sum of the
\* declared lengths of the sections before it (big_files being
\* 28 * (file_count1 + file_count2), file_lookup_buckets 8 * (num_entries + 1)).
C1_SectionsBackToBack ==
    ResolutionSucceeded =>
        \A i \in 1..NumSections :
            FromNat(sections[i]) = DeclaredStart(node_header, hash_bucket, i)

\* C2: when the declared section lengths sum to exactly len(buffer), parse
\* returns Ok and the sections partition the buffer, numbers being empty.
C2_ExactFitParses ==
    (pc = "done" /\ BufferWasRead /\ DeclaredExact(node_header, buffer)) =>
        /\ result = "Ok"
        /\ ResolutionSucceeded
        /\ \A i \in 1..NumSections :
              FromNat(sections[i]) = DeclaredStart(node_header, hash_bucket, i)
        /\ sections[NumSections] = Len(buffer)

\* C3: when the declared section lengths sum to more than len(buffer),
\* resolution fails with a TruncatedData error value.
C3_TruncatedDataError ==
    (pc = "done" /\ BufferWasRead /\ DeclaredTooLong(node_header, buffer)) =>
        result = "InternalError" /\ error = "TruncatedData"

\* C4: when the first 8 bytes cannot be read or are not the magic number,
\* parse returns NotDataArc and the 8-byte read is the only operation it ever
\* issues on the stream.
C4_BadMagicNotDataArc ==
    MagicIsBad =>
        /\ pc \in {"magic", "done"}
        /\ result \in {"running", "NotDataArc"}
        /\ pc = "magic" => io = <<>>
        /\ pc = "done" =>
              result = "NotDataArc" /\ io = <<<<"read", Zero, FromNat(8)>>>>

C4_Witness ==
    /\ Len(file) >= 8
    /\ MagicIsBad
    /\ pc = "done"
    /\ result = "NotDataArc"
    /\ Len(io) = 1

\* C5: after a magic match the call ends with Ok or Err(InternalError),
\* every failure being returned as InternalError.
C5_OnlyOkOrInternalError ==
    (pc = "done" /\ ~MagicIsBad) => result \in {"Ok", "InternalError"}

\* C6: a probe with data_start < 0x100 ends the call with an UnsupportedFeature
\* error value, and the bytes at node_section_offset are not read again.
C6_CompressedUnsupported ==
    (pc = "done" /\ ProbeWasRead /\ Lt(compressed.data_start, FromNat(256))) =>
        /\ result = "InternalError"
        /\ error = "UnsupportedFeature"
        /\ Cardinality(ReadsAt(header.node_section_offset)) = 1

\* C7: on the raw branch a NodeHeader with file_size < 68 fails with
\* CorruptHeader; otherwise exactly file_size - 68 bytes are read after it.
C7_CorruptHeaderOrBuffer ==
    (pc = "done" /\ NodeHeaderWasRead) =>
        IF Lt(node_header.file_size, FromNat(68))
        THEN result = "InternalError" /\ error = "CorruptHeader"
        ELSE /\ Len(io) = 7
             /\ io[7] = <<"read", Add(header.node_section_offset, FromNat(68)),
                          WrappingSub(node_header.file_size, FromNat(68))>>
             /\ BufferWasRead =>
                   FromNat(Len(buffer)) =
                       WrappingSub(node_header.file_size, FromNat(68))

\* C8: a Pair decodes to hash = b0 + 2^8 b1 + 2^16 b2 + 2^24 b3 + 2^32 b4 and
\* meta = b5 + 2^8 b6 + 2^16 b7 (so hash <= 2^40 - 1, meta <= 2^24 - 1; bytes
\* 01 02 03 04 05 AA BB CC give 0x0504030201 and 0xCCBBAA); a Triplet adds
\* meta2 = the little-endian u32 of bytes 8..11; nothing depends on a byte
\* beyond the record's size, and every window long enough decodes.
C8_PairTripletDecoding ==
    /\ (Len(data) >= 8 /\ pair.status # "none") => pair.status = "ok"
    /\ (Len(data) >= 12 /\ triplet.status # "none") => triplet.status = "ok"
    /\ pair.status = "ok" =>
          /\ pair.hash = <<data[1] + 256 * data[2], data[3] + 256 * data[4],
                           data[5], 0>>
          /\ pair.meta = <<data[6] + 256 * data[7], data[8], 0, 0>>
          /\ Le(pair.hash, <<65535, 65535, 255, 0>>)
          /\ Le(pair.meta, <<65535, 255, 0, 0>>)
          /\ SubSeq(data, 1, 8) = <<1, 2, 3, 4, 5, 170, 187, 204>> =>
                pair.hash = <<513, 1027, 5, 0>> /\ pair.meta = <<48042, 204, 0, 0>>
    /\ triplet.status = "ok" =>
          /\ triplet.hash = <<data[1] + 256 * data[2], data[3] + 256 * data[4],
                              data[5], 0>>
          /\ triplet.meta = <<data[6] + 256 * data[7], data[8], 0, 0>>
          /\ triplet.meta2 = <<data[9] + 256 * data[10],
                               data[11] + 256 * data[12], 0, 0>>
          /\ Le(triplet.hash, <<65535, 65535, 255, 0>>)
          /\ Le(triplet.meta, <<65535, 255, 0, 0>>)

C8_Witness ==
    /\ Len(data) > 12
    /\ SubSeq(data, 1, 8) = <<1, 2, 3, 4, 5, 170, 187, 204>>
    /\ data[13] = 255
    /\ pair.status = "ok"
    /\ triplet.status = "ok"

\* C9: as long as the file has not been rewritten, a NodeHeader decoded on the
\* raw branch has file_size >= 0x100, so file_size - 68 never underflows and
\* the buffer holds at least 188 bytes.
C9_RawFileSizeAtLeast256 ==
    (writes = 0 /\ NodeHeaderWasRead) =>
        /\ ~Lt(node_header.file_size, FromNat(256))
        /\ error \notin {"subtract_overflow", "capacity_overflow"}
        /\ BufferWasRead => Len(buffer) >= 188

C9_Witness ==
    /\ writes = 0
    /\ pc = "resolve"
    /\ node_header.file_size = FromNat(256)
    /\ Len(buffer) = 188

\* C10: the big_files section is 28 * (file_count1 + file_count2) bytes long,
\* the sum being the mathematical one: it neither wraps modulo 2^32 nor aborts
\* the parse.
C10_BigFilesMathematicalSum ==
    /\ ~(result = "panic" /\ error = "add_overflow")
    /\ Len(sections) >= 9 =>
          FromNat(sections[9] - sections[8]) =
              Mul(28, Add(node_header.file_count1, node_header.file_count2))

====
